---- MODULE Spec2Model ----
(***************************************************************************)
(* wholeBodyTorqueObserver (src/modules/wholeBodyTorqueObserver/main.cpp): *)
(* the cyclic thread inverseDynamics (threadInit / calibrateOffset / run)  *)
(* with its input channels, joint encoders and the two chain models.       *)
(*                                                                         *)
(* Numbers.  A double is modelled by a binary floating-point format with a *)
(* MantBits-bit significand, round-to-nearest-even, and gradual underflow  *)
(* at 2^-FracBits: a finite value is the integer count of units 2^-FracBits*)
(* it holds, Inf / NaN are two reserved codes.  Joint positions and        *)
(* inertial samples are only copied by the code and stay plain integers.   *)
(* The derivative estimators and the chain models are collaborators whose  *)
(* code is outside this file; their results are tagged values.             *)
(***************************************************************************)
EXTENDS Integers, Sequences, FiniteSets, TLC

\* ---------------------------------------------------------------- bounds
MantBits == 6
FracBits == 10
NSamples == 2
VaryTrials == 1
MaxTrials == 3
MaxCycles == 2
MaxMsgs == 1
MaxReleases == 2
MaxInvocations == 2

\* ------------------------------------------------------ program constants
InitTrials == 10
WrenchLen == 6
InertialLen == 12
HeadJnt == 3
ArmJnt == 7
TorsoJnt == 3
LegJnt == 7
ArmAddress == 1
LegAddress == 2
VOCAB_TEST == 1953719668
VOCAB_COMP == 1886220131
MAX_JN == 12
MAX_FILTER_ORDER == 6
GyroLen == 6
FirstGyro == 3

STATUS_OK == "STATUS_OK"
STATUS_DISCONNECTED == "STATUS_DISCONNECTED"
STATUS_UNSET == "STATUS_UNSET"

\* Op applied to the value of v
Strict(v, Op(_)) == CHOOSE y \in {Op(x) : x \in {v}} : TRUE

\* ------------------------------------------------------------ arithmetic
RECURSIVE Pow2(_)
Pow2(n) == IF n = 0 THEN 1 ELSE 2 * Pow2(n - 1)

Scale == Pow2(FracBits)
Inf == Pow2(29)
NaN == Pow2(30)

Abs(n) == IF n < 0 THEN -n ELSE n

IsFinite(x) == Abs(x) < Inf

Num(n) == n * Scale

Sign(x) == IF x < 0 THEN -1 ELSE 1

\* a/d rounded to the nearest integer, ties to even (a >= 0, d > 0)
DivRNE(a, d) ==
    Strict(<<a \div d, a % d, d>>, LAMBDA t :
        IF 2 * t[2] > t[3] \/ (2 * t[2] = t[3] /\ t[1] % 2 = 1) THEN t[1] + 1
        ELSE t[1])

\* the exponent e >= 0 of a/d: the least with a/d < 2^(MantBits + e)
RECURSIVE Expo(_, _, _)
Expo(a, d, e) == IF a < d * Pow2(MantBits + e) THEN e ELSE Expo(a, d, e + 1)

\* num/den (in units) rounded to MantBits significant bits
RoundQ(num, den) ==
    Strict(<<Abs(num), den, Sign(num)>>, LAMBDA p :
        Strict(Pow2(Expo(p[1], p[2], 0)), LAMBDA w :
            p[3] * DivRNE(p[1], p[2] * w) * w))

FNeg(x) == IF x = NaN THEN NaN ELSE -x

FAdd(x, y) ==
    IF x = NaN \/ y = NaN THEN NaN
    ELSE IF ~IsFinite(x) /\ ~IsFinite(y) THEN (IF x = y THEN x ELSE NaN)
    ELSE IF ~IsFinite(x) THEN x
    ELSE IF ~IsFinite(y) THEN y
    ELSE RoundQ(x + y, 1)

FSub(x, y) == FAdd(x, FNeg(y))

FMul(x, y) ==
    IF x = NaN \/ y = NaN THEN NaN
    ELSE IF ~IsFinite(x) \/ ~IsFinite(y)
         THEN (IF x = 0 \/ y = 0 THEN NaN ELSE Sign(x) * Sign(y) * Inf)
    ELSE RoundQ(x * y, Scale)

FDiv(x, y) ==
    IF x = NaN \/ y = NaN THEN NaN
    ELSE IF ~IsFinite(x) THEN (IF ~IsFinite(y) THEN NaN ELSE Sign(x) * Sign(y) * Inf)
    ELSE IF ~IsFinite(y) THEN 0
    ELSE IF y = 0 THEN (IF x = 0 THEN NaN ELSE Sign(x) * Inf)
    ELSE LET r == RoundQ(Abs(x) * Scale, Abs(y))
         IN  Sign(x) * Sign(y) * r

\* ---------------------------------------------------------------- vectors
\* the sequence with the components of f, evaluated once
Vec(f) == f \o <<>>

Zeros(n) == Vec([i \in 1..n |-> 0])

VSub(u, v) ==
    Strict(<<u, v>>, LAMBDA a : Vec([i \in 1..Len(a[1]) |-> FSub(a[1][i], a[2][i])]))
VAdd(u, v) ==
    Strict(<<u, v>>, LAMBDA a : Vec([i \in 1..Len(a[1]) |-> FAdd(a[1][i], a[2][i])]))
VScale(c, u) ==
    Strict(<<c, u>>, LAMBDA a : Vec([i \in 1..Len(a[2]) |-> FMul(a[1], a[2][i])]))

RECURSIVE SumTo(_, _)
SumTo(s, n) == IF n = 0 THEN 0 ELSE s[n] + SumTo(s, n - 1)

SumSeq(s) == Strict(s, LAMBDA v : SumTo(v, Len(v)))

\* ------------------------------------------------- channels, joint groups
\* FT and inertial input channels, in the order readAndUpdate reads them
Chans == <<"left_arm", "right_arm", "left_leg", "right_leg", "inertial">>
ChanSet == {Chans[n] : n \in 1..Len(Chans)}
Limbs == {"left_arm", "right_arm", "left_leg", "right_leg"}

\* joint groups, in the order their encoders are read
UpGroups == <<"left_arm", "right_arm", "head">>
LowGroups == <<"left_leg", "right_leg", "torso">>
UpSet == {"head", "left_arm", "right_arm"}
LowSet == {"torso", "left_leg", "right_leg"}
Groups == UpSet \cup LowSet

Jnt(g) ==
    CASE g = "head" -> HeadJnt
      [] g = "torso" -> TorsoJnt
      [] g \in {"left_arm", "right_arm"} -> ArmJnt
      [] OTHER -> LegJnt

\* number of axes the joint-access collaborator reports for a group
Axes(g) == Jnt(g)

Ix(g) ==
    CASE g = "left_arm" -> 1
      [] g = "right_arm" -> 2
      [] g = "left_leg" -> 3
      [] g = "right_leg" -> 4
      [] g = "head" -> 5
      [] OTHER -> 6

NULL == <<>>

\* a value per limb / per joint group
OnLimbs(Op(_)) ==
    [left_arm |-> Op("left_arm"), right_arm |-> Op("right_arm"),
     left_leg |-> Op("left_leg"), right_leg |-> Op("right_leg")]
OnUpper(Op(_)) ==
    [head |-> Op("head"), left_arm |-> Op("left_arm"), right_arm |-> Op("right_arm")]
OnLower(Op(_)) ==
    [torso |-> Op("torso"), left_leg |-> Op("left_leg"), right_leg |-> Op("right_leg")]
OnGroups(Op(_)) ==
    [head |-> Op("head"), left_arm |-> Op("left_arm"), right_arm |-> Op("right_arm"),
     torso |-> Op("torso"), left_leg |-> Op("left_leg"), right_leg |-> Op("right_leg")]
OnChans(Op(_)) ==
    [left_arm |-> Op("left_arm"), right_arm |-> Op("right_arm"),
     left_leg |-> Op("left_leg"), right_leg |-> Op("right_leg"),
     inertial |-> Op("inertial")]

\* ----------------------------------------------------- environment inputs
\* The k-th sample the environment can present on a read: an FT frame per
\* limb, an inertial frame, and the joint positions of each group.
SampleFT(k, l) == Vec([n \in 1..WrenchLen |-> 25 + 4 * ((k + Ix(l) + n) % 4)])
SampleInertial(k) == Vec([n \in 1..InertialLen |-> (k + n) % 3])
SampleEnc(k, g) == Vec([n \in 1..Axes(g) |-> (k * n + Ix(g)) % 5])

\* the sets of channels that deliver a new frame in one cycle
NewMasks == { {}, ChanSet, {"left_arm"} }

\* the sets of joint groups whose encoder read fails in one read
FailSets == { {}, {"head", "left_leg"} }

\* the same, for the reads of a calibration trial
CalFailSets == { {}, {"head"} }

\* the environment presents a different sample from one calibration trial to
\* the next only in the first VaryTrials trials of a calibration
SampleMayChange(i) == i < VaryTrials

\* --------------------------------------------- collaborators (out of file)
\* Derivative estimators: the estimate of a component is a value tagged with
\* the estimator's kind and the sample component it was asked about.
ZeroRate == <<"zero", 0>>
Estimate(kind, x) == Vec([n \in 1..Len(x) |-> <<kind, x[n]>>])
ZeroRates(n) == Vec([j \in 1..n |-> ZeroRate])

\* CTRL_DEG2RAD * v
Deg2Rad(v) == Vec([n \in 1..Len(v) |-> <<"rad", v[n]>>])
Deg(v) == Vec([n \in 1..Len(v) |-> v[n][2]])

\* A chain model node (iCubUpperTorso / iCubLowerTorso): the joint state it
\* has been given, its base (inertial) motion, and the result of its last
\* solve: the kinematic state it was solved with and the wrenches it used.
NodeInit(upper, base) ==
    LET a0(g) == Deg2Rad(Zeros(Jnt(g)))
        r0(g) == Deg2Rad(ZeroRates(Jnt(g)))
        kin == [ang |-> IF upper THEN OnUpper(a0) ELSE OnLower(a0),
                dang |-> IF upper THEN OnUpper(r0) ELSE OnLower(r0),
                d2ang |-> IF upper THEN OnUpper(r0) ELSE OnLower(r0),
                inert |-> base]
    IN  [kin |-> kin,
         out |-> [kin |-> kin, FR |-> Zeros(WrenchLen), FL |-> Zeros(WrenchLen),
                  Fup |-> Zeros(WrenchLen)]]

UpperBase0 == <<Zeros(3), ZeroRates(3), Zeros(3)>>
LowerBase0 == <<<<"TorsoAngVel", <<>>>>, <<"TorsoAngAcc", <<>>>>, <<"TorsoLinAcc", <<>>>>>>

WholeBodyInit ==
    [upperTorso |-> NodeInit(TRUE, UpperBase0),
     lowerTorso |-> NodeInit(FALSE, LowerBase0)]

setAng(node, g, v) == [node EXCEPT !.kin.ang[g] = v]
setDAng(node, g, v) == [node EXCEPT !.kin.dang[g] = v]
setD2Ang(node, g, v) == [node EXCEPT !.kin.d2ang[g] = v]
setInertialMeasure(node, w, dw, d2p) == [node EXCEPT !.kin.inert = <<w, dw, d2p>>]

\* update(w, dw, d2p, FR, FL, Fup): set the base motion and solve
update(node, w, dw, d2p, FR, FL, Fup) ==
    LET n1 == setInertialMeasure(node, w, dw, d2p)
    IN  [n1 EXCEPT !.out = [kin |-> n1.kin, FR |-> FR, FL |-> FL, Fup |-> Fup]]

\* estimateSensorsWrench(F_ext, false): solve with the current state
solveSensors(node) ==
    [node EXCEPT !.out = [kin |-> node.kin, FR |-> Zeros(WrenchLen),
                          FL |-> Zeros(WrenchLen), Fup |-> Zeros(WrenchLen)]]

\* column of the sensor-wrench matrix for a limb, after solveSensors
SensorWrenchCol(node, l) ==
    Strict(SumSeq(Deg(node.out.kin.ang[l])),
           LAMBDA pose : Vec([n \in 1..WrenchLen |-> 8 * ((pose + n) % 3)]))

getTorsoAngVel(node) == <<"TorsoAngVel", node.out.kin>>
getTorsoAngAcc(node) == <<"TorsoAngAcc", node.out.kin>>
getTorsoLinAcc(node) == <<"TorsoLinAcc", node.out.kin>>

\* the wrench applied at the end of a limb in the node's last solution
LimbWrench(node, l) ==
    IF l \in {"right_arm", "right_leg"} THEN node.out.FR
    ELSE IF l \in {"left_arm", "left_leg"} THEN node.out.FL
    ELSE node.out.Fup

\* getTorques(limb): one value per joint of the limb, a function of the
\* solution (here: of the joint's position and one wrench component)
getTorques(node, l) ==
    Vec([j \in 1..Jnt(l) |->
            [limb |-> l, joint |-> j,
             ang |-> node.out.kin.ang[l][j],
             F |-> LimbWrench(node, l)[((j - 1) % WrenchLen) + 1]]])

\* ------------------------------------------------------- lpf_ord1_3hz
\* the literals 1.870043440e+01 and 0.8930506128 as the format holds them
\* (their leading digits decide the rounding)
FilterGain == RoundQ(187004 * Scale, 10000)

\* a feedback coefficient of 1.0
FeedbackUnity == Scale

\* 0.8930506128
FeedbackCoef == RoundQ(89305 * Scale, 100000)

\* static double xv[MAX_FILTER_ORDER][MAX_JN], yv[...]: zero-initialized
FilterMem0 ==
    [xv |-> [r \in 0..(MAX_FILTER_ORDER - 1) |-> [j \in 0..(MAX_JN - 1) |-> 0]],
     yv |-> [r \in 0..(MAX_FILTER_ORDER - 1) |-> [j \in 0..(MAX_JN - 1) |-> 0]]]

\* lines 150-157: the recursion on channel j
FilterStep(mem, input, j) ==
    Strict(<<mem.xv[1][j], FDiv(input, FilterGain), mem.yv[1][j]>>, LAMBDA t :
      Strict(FAdd(FAdd(t[1], t[2]), FMul(FeedbackCoef, t[3])), LAMBDA y1 :
        [mem |-> [xv |-> [mem.xv EXCEPT ![0][j] = t[1], ![1][j] = t[2]],
                  yv |-> [mem.yv EXCEPT ![0][j] = t[3], ![1][j] = y1]],
         ret |-> y1]))

\* an index check that folds a bad index onto the last channel
lpf_clamped(mem, input, j) ==
    FilterStep(mem, input, IF j < 0 THEN 0 ELSE IF j >= MAX_JN THEN MAX_JN - 1 ELSE j)

\* a filter that keeps one history for all channels
lpf_shared(mem, input, j) ==
    IF j < 0 \/ j >= MAX_JN THEN [mem |-> mem, ret |-> 0]
    ELSE Strict(FilterStep(mem, input, 0), LAMBDA r :
           [mem |-> [xv |-> [r.mem.xv EXCEPT ![0][j] = r.mem.xv[0][0],
                                             ![1][j] = r.mem.xv[1][0]],
                     yv |-> [r.mem.yv EXCEPT ![0][j] = r.mem.yv[0][0],
                                             ![1][j] = r.mem.yv[1][0]]],
            ret |-> r.ret])

\* lines 143-158: the new filter memory and the returned value
lpf_ord1_3hz(mem, input, j) ==
    IF j < 0 \/ j >= MAX_JN THEN [mem |-> mem, ret |-> 0]
    ELSE FilterStep(mem, input, j)

\* the two-sample input/output history of channel j
History(mem, j) == <<mem.xv[0][j], mem.xv[1][j], mem.yv[0][j], mem.yv[1][j]>>

\* lines 988-992 of onRead: the filter applied to elements i.. of the
\* message in turn; acc collects the returned values
RECURSIVE FilterAll(_, _, _, _)
FilterAll(mem, x, i, acc) ==
    IF i >= Len(x) THEN [mem |-> mem, inertial |-> acc]
    ELSE Strict(lpf_ord1_3hz(mem, x[i + 1], i), LAMBDA r :
           FilterAll(r.mem, x, i + 1, Append(acc, r.ret)))

\* the element of the filtered message that goes to g[k]
GyroFromZero(k) == k
GyroChannel(k) == FirstGyro + k

\* lines 993-998: g[0..5] = inertial[3..8]
GyroOf(inertial) == Vec([k \in 1..GyroLen |-> inertial[GyroChannel(k - 1) + 1]])

\* the indices among 3..8 that a vector of the given length does not have
PastEnd(len) == {GyroChannel(k) : k \in 0..(GyroLen - 1)} \ (0..(len - 1))

\* what a read past the end of the vector may return
Garbage == {0, Num(2)}

\* lines 993-998 on a vector of any length: Vector::operator[] does not
\* check its index, and a read past the end returns whatever lies there
GyroRead(inertial, junk) ==
    IF PastEnd(Len(inertial)) = {} THEN GyroOf(inertial)
    ELSE Vec([k \in 1..GyroLen |->
                 IF GyroChannel(k - 1) \in PastEnd(Len(inertial)) THEN junk
                 ELSE inertial[GyroChannel(k - 1) + 1]])

\* inbound raw inertial messages: kind 1 has 1.0 on every channel, kind 2
\* mixed values and one element more than the filter has channels
InboundKinds == {1, 2}

\* messages of other sizes: kind 3 has five elements, kind 4 none
ShortKinds == {3, 4}

Inbound(kind) ==
    CASE kind = 1 -> Vec([i \in 1..MAX_JN |-> Num(1)])
      [] kind = 2 -> Vec([i \in 1..(MAX_JN + 1) |-> Num(i % 4)])
      [] kind = 3 -> Vec([i \in 1..(FirstGyro + 2) |-> Num(i % 4)])
      [] OTHER -> <<>>
Stamps == {7, 8}

\* arguments of the direct calls of lpf_ord1_3hz
CallIndices == {-1, FirstGyro + 1, MAX_JN}
CallInputs == {Num(1)}

\* ------------------------------------------------------------------ state
VARIABLES
    pc,                     \* "start" | "calibrate" | "running"
    Ntrials,                \* argument of the calibrateOffset call in progress
    trial,                  \* loop counter i of calibrateOffset
    rd,                     \* index in Chans of the next blocking read
    cur,                    \* sample presented to the trial in progress
    feed,                   \* feed[c]: the source of channel c delivers messages
    ft,                     \* ft_arm_left .. ft_leg_right, inertial (pointers)
    inertial_measurements, w0, dw0, d2p0,
    F, F_iDyn, Offset,      \* per limb
    encoders, q, dq, d2q,   \* per joint group
    all_up, all_low,        \* all_q_*, all_dq_*, all_d2q_*
    icub, icub_sens,        \* the two whole-body models
    thread_status,
    test, comp,
    calls,                  \* calls made by the last step, in order
    lastFrame,              \* history: last frame each channel delivered
    prevStatus,             \* history: thread_status before it was last set
    cycle,                  \* history: number of cycles run
    first, same, exactSum,  \* history of the calibration trials
    xv, yv,                 \* the static arrays of lpf_ord1_3hz
    g_out,                  \* dataFilter::g
    inb, nIn,               \* last inbound raw message, number received
    out, nOut,              \* last message written to port_filtered, number
    lastCall,               \* history: the last direct call of lpf_ord1_3hz
    unit,                   \* history: channel fed 1.0 ever since zero memory
    est,                    \* estimators of the thread that are allocated
    ports,                  \* ports of the thread that are open
    dd,                     \* device drivers of the module that are open
    mports,                 \* ports of the module that are open
    mpc,                    \* the step of close() the module is at
    axes,                   \* axis count getAxes reports for each joint group
    sized,                  \* sizes the buffers were given by init_upper/lower
    badIndex,               \* history: accesses made outside a buffer
    apc,                    \* position in the constructor's initialization
    overrun,                \* history: indices onRead read past its vector
    lateWrites,             \* history: writes made on the closed output port
    relCount,               \* history: times each resource was released
    polled,                 \* history: the last status poll of updateModule
    trace,                  \* history: samples of the calibration in progress
    results                 \* history: samples and offsets of each calibrateOffset call

threadVars ==
    <<pc, Ntrials, trial, rd, cur, feed, ft, inertial_measurements, w0, dw0, d2p0,
      F, F_iDyn, Offset, encoders, q, dq, d2q, all_up, all_low, icub, icub_sens,
      thread_status, test, comp, calls, lastFrame, prevStatus, cycle, first, same,
      exactSum>>

filterVars == <<xv, yv, g_out, inb, nIn, out, nOut, lastCall, unit>>

lifeVars == <<est, ports, dd, mports, mpc>>

auxVars ==
    <<axes, sized, badIndex, apc, overrun, lateWrites, relCount, polled, trace,
      results>>

vars == <<threadVars, filterVars, lifeVars, auxVars>>

\* the memory of lpf_ord1_3hz
FilterMem == [xv |-> xv, yv |-> yv]

\* the fields of the thread object that readAndUpdate and run work on
Self ==
    [ft |-> ft, inertial_measurements |-> inertial_measurements,
     w0 |-> w0, dw0 |-> dw0, d2p0 |-> d2p0,
     encoders |-> encoders, q |-> q, dq |-> dq, d2q |-> d2q,
     all_up |-> all_up, all_low |-> all_low,
     icub |-> icub, icub_sens |-> icub_sens,
     calls |-> <<>>, lastFrame |-> lastFrame, b |-> TRUE]

Call(S, e) == [S EXCEPT !.calls = Append(@, e)]

\* ---------------------------------------------------------- readAndUpdate
\* port->read(waitMeasure) on channel c: the new frame of sample k when one
\* is delivered, NULL otherwise
PortRead(S, c, wait, from, k, isNew) ==
    LET frame == IF c = "inertial" THEN SampleInertial(k) ELSE SampleFT(k, c)
        got == IF isNew THEN frame ELSE NULL
        S1 == [S EXCEPT !.ft[c] = got,
                        !.lastFrame[c] = IF isNew THEN frame ELSE @]
    IN  Call(S1, [op |-> "read", port |-> c, wait |-> wait, from |-> from,
                  new |-> isNew])

RECURSIVE ReadPorts(_, _, _, _, _, _)
ReadPorts(S, n, wait, from, k, fresh) ==
    IF n > Len(Chans) THEN S
    ELSE Strict(PortRead(S, Chans[n], wait, from, k, Chans[n] \in fresh),
                LAMBDA S1 : ReadPorts(S1, n + 1, wait, from, k, fresh))

\* an inertial block that clears the base motion when no frame came
InertialUpdateReset(S) ==
    IF S.ft["inertial"] # NULL
    THEN LET im == S.ft["inertial"]
             w == <<im[4], im[5], im[6]>>
             S1 == [S EXCEPT !.inertial_measurements = im,
                             !.d2p0 = <<im[1], im[2], im[3]>>,
                             !.w0 = w,
                             !.dw0 = Estimate("InertialEst", w)]
         IN  Call(S1, [op |-> "estimate", est |-> "InertialEst", x |-> w])
    ELSE [S EXCEPT !.d2p0 = Zeros(3), !.w0 = Zeros(3), !.dw0 = ZeroRates(3)]

\* lines 755-768
InertialUpdate(S) ==
    IF S.ft["inertial"] # NULL
    THEN LET im == S.ft["inertial"]
             w == <<im[4], im[5], im[6]>>
             S1 == [S EXCEPT !.inertial_measurements = im,
                             !.d2p0 = <<im[1], im[2], im[3]>>,
                             !.w0 = w,
                             !.dw0 = Estimate("InertialEst", w)]
         IN  Call(S1, [op |-> "estimate", est |-> "InertialEst", x |-> w])
    ELSE S

\* iencs->getEncoders(buffer): fills the buffer on success; a failed read
\* leaves the buffer as it was
GetEncoders(S, g, k, fails) ==
    LET ok == g \notin fails
        S1 == [S EXCEPT !.encoders[g] = IF ok THEN SampleEnc(k, g) ELSE @,
                        !.b = @ /\ ok]
    IN  Call(S1, [op |-> "getEncoders", group |-> g, ok |-> ok])

RECURSIVE GetAllEncoders(_, _, _, _, _)
GetAllEncoders(S, gs, n, k, fails) ==
    IF n > Len(gs) THEN S
    ELSE Strict(GetEncoders(S, gs[n], k, fails),
                LAMBDA S1 : GetAllEncoders(S1, gs, n + 1, k, fails))

\* a slice taken at the start of the vector whatever the offset
SliceFromStart(v, from, n) == Vec([j \in 1..n |-> v[j]])

Slice(v, from, n) == Vec([j \in 1..n |-> v[from + j]])

\* lines 833-862, after the three encoder reads
UpperRates(S1) ==
    LET qh == Vec([j \in 1..HeadJnt |-> S1.encoders["head"][j]])
        ql == Vec([j \in 1..ArmJnt |-> S1.encoders["left_arm"][j]])
        qr == Vec([j \in 1..ArmJnt |-> S1.encoders["right_arm"][j]])
    IN  Strict(qh \o ql \o qr, LAMBDA allq :
          Strict([q |-> allq, dq |-> Estimate("linEstUp", allq),
                  d2q |-> Estimate("quadEstUp", allq)],
                 LAMBDA all :
            [Call(Call(S1, [op |-> "estimate", est |-> "linEstUp", x |-> allq]),
                  [op |-> "estimate", est |-> "quadEstUp", x |-> allq])
             EXCEPT
                !.q.head = Slice(allq, 0, HeadJnt),
                !.q.left_arm = Slice(allq, HeadJnt, ArmJnt),
                !.q.right_arm = Slice(allq, HeadJnt + ArmJnt, ArmJnt),
                !.all_up = all,
                !.dq.head = Slice(all.dq, 0, HeadJnt),
                !.dq.left_arm = Slice(all.dq, HeadJnt, ArmJnt),
                !.dq.right_arm = Slice(all.dq, HeadJnt + ArmJnt, ArmJnt),
                !.d2q.head = Slice(all.d2q, 0, HeadJnt),
                !.d2q.left_arm = Slice(all.d2q, HeadJnt, ArmJnt),
                !.d2q.right_arm = Slice(all.d2q, HeadJnt + ArmJnt, ArmJnt)]))

getUpperEncodersSpeedAndAcceleration(S, k, fails) ==
    Strict(GetAllEncoders(S, UpGroups, 1, k, fails), UpperRates)

\* lines 789-818, after the three encoder reads
LowerRates(S1) ==
    LET qt == Vec([j \in 1..TorsoJnt |-> S1.encoders["torso"][(2 - (j - 1)) + 1]])
        ql == Vec([j \in 1..LegJnt |-> S1.encoders["left_leg"][j]])
        qr == Vec([j \in 1..LegJnt |-> S1.encoders["right_leg"][j]])
    IN  Strict(qt \o ql \o qr, LAMBDA allq :
          Strict([q |-> allq, dq |-> Estimate("linEstLow", allq),
                  d2q |-> Estimate("quadEstLow", allq)],
                 LAMBDA all :
            [Call(Call(S1, [op |-> "estimate", est |-> "linEstLow", x |-> allq]),
                  [op |-> "estimate", est |-> "quadEstLow", x |-> allq])
             EXCEPT
                !.q.torso = Slice(allq, 0, TorsoJnt),
                !.q.left_leg = Slice(allq, TorsoJnt, LegJnt),
                !.q.right_leg = Slice(allq, TorsoJnt + LegJnt, LegJnt),
                !.all_low = all,
                !.dq.torso = Slice(all.dq, 0, TorsoJnt),
                !.dq.left_leg = Slice(all.dq, TorsoJnt, LegJnt),
                !.dq.right_leg = Slice(all.dq, TorsoJnt + LegJnt, LegJnt),
                !.d2q.torso = Slice(all.d2q, 0, TorsoJnt),
                !.d2q.left_leg = Slice(all.d2q, TorsoJnt, LegJnt),
                !.d2q.right_leg = Slice(all.d2q, TorsoJnt + LegJnt, LegJnt)]))

getLowerEncodersSpeedAndAcceleration(S, k, fails) ==
    Strict(GetAllEncoders(S, LowGroups, 1, k, fails), LowerRates)

\* give a node the joint state of its groups
SetJoints(node, upper, S) ==
    LET a(g) == Deg2Rad(S.q[g])
        da(g) == Deg2Rad(S.dq[g])
        d2a(g) == Deg2Rad(S.d2q[g])
    IN  [node EXCEPT !.kin.ang = IF upper THEN OnUpper(a) ELSE OnLower(a),
                     !.kin.dang = IF upper THEN OnUpper(da) ELSE OnLower(da),
                     !.kin.d2ang = IF upper THEN OnUpper(d2a) ELSE OnLower(d2a)]

SetUpperNode(node, S) ==
    setInertialMeasure(SetJoints(node, TRUE, S), S.w0, S.dw0, S.d2p0)

setUpperMeasure(S, init, tst) ==
    IF ~init
    THEN LET S1 == [S EXCEPT !.icub.upperTorso = SetUpperNode(@, S)]
         IN  IF tst = VOCAB_COMP
             THEN [S1 EXCEPT !.icub_sens.upperTorso = SetUpperNode(@, S)]
             ELSE S1
    ELSE [S EXCEPT !.icub_sens.upperTorso = SetUpperNode(@, S)]

setLowerMeasure(S, init, tst) ==
    IF ~init
    THEN LET S1 == [S EXCEPT !.icub.lowerTorso = SetJoints(@, FALSE, S)]
         IN  IF tst = VOCAB_COMP
             THEN [S1 EXCEPT !.icub_sens.lowerTorso = SetJoints(@, FALSE, S)]
             ELSE S1
    ELSE [S EXCEPT !.icub_sens.lowerTorso = SetJoints(@, FALSE, S)]

\* readAndUpdate after its five port reads (lines 743-774); the result's b
\* is the value readAndUpdate returns
AfterReads(S, init, tst, k, fails) ==
    Strict(InertialUpdate(S), LAMBDA S1 :
      Strict(getUpperEncodersSpeedAndAcceleration(S1, k, fails), LAMBDA S2 :
        Strict(setUpperMeasure(S2, init, tst), LAMBDA S3 :
          Strict(getLowerEncodersSpeedAndAcceleration(S3, k, fails), LAMBDA S4 :
            setLowerMeasure(S4, init, tst)))))

\* -------------------------------------------------------- calibrateOffset
IntToDouble(n) == RoundQ(Num(n), 1)

\* for(unsigned int i=0; i<Ntrials; i++)
LoopContinues(i, n) == i < n

\* port->read(true) returns only when the channel delivers a message;
\* port->read(false) returns at once
ReadReturns(wait, alive) == wait => alive

\* threadInit reporting failure
ThreadInitFails == FALSE

\* threadInit's return value
ThreadInitReturn == TRUE

\* F_sensor.getCol(col) of a node's estimateSensorsWrench: column 0 is the
\* right limb, column 1 the left limb
F_sensor(node, part, col) ==
    SensorWrenchCol(node, (IF col = 0 THEN "right_" ELSE "left_") \o part)

SolveSens(ws, w, dw, d2p) ==
    LET su == solveSensors(setInertialMeasure(ws.upperTorso, w, dw, d2p))
        sl == solveSensors(setInertialMeasure(ws.lowerTorso, getTorsoAngVel(su),
                                              getTorsoAngAcc(su), getTorsoLinAcc(su)))
    IN  [upperTorso |-> su, lowerTorso |-> sl]

Predicted(ws) ==
    [left_arm |-> VScale(Num(-1), F_sensor(ws.upperTorso, "arm", 1)),
     right_arm |-> VScale(Num(-1), F_sensor(ws.upperTorso, "arm", 0)),
     left_leg |-> VScale(Num(-1), F_sensor(ws.lowerTorso, "leg", 1)),
     right_leg |-> VScale(Num(-1), F_sensor(ws.lowerTorso, "leg", 0))]

Accumulate(off, m, p) == VAdd(off, VSub(m, p))

Average(n, off) == VScale(FDiv(Num(1), IntToDouble(n)), off)

\* a calibration that starts from the offsets it finds
OffsetKept(off) == off

\* lines 674-677: Offset_*.zero()
OffsetAtStart(off) == OnLimbs(LAMBDA l : Zeros(WrenchLen))

\* the other history variables, which calibrateOffset leaves alone
CalAux == <<axes, sized, badIndex, apc, overrun, lateWrites, relCount, polled>>

\* threadInit calls calibrateOffset: lines 672-677
CalibrateBegin ==
    /\ pc = "start"
    /\ pc' = "calibrate"
    /\ Offset' = OffsetAtStart(Offset)
    /\ trace' = <<>>
    /\ trial' = 0
    /\ rd' = 1
    /\ first' = OnLimbs(LAMBDA l : [m |-> Zeros(WrenchLen), p |-> Zeros(WrenchLen)])
    /\ same' = OnLimbs(LAMBDA l : TRUE)
    /\ exactSum' = OnLimbs(LAMBDA l : Zeros(WrenchLen))
    /\ calls' = <<>>
    /\ UNCHANGED <<Ntrials, cur, feed, ft, inertial_measurements, w0, dw0, d2p0,
                   F, F_iDyn, encoders, q, dq, d2q, all_up, all_low, icub,
                   icub_sens, thread_status, test, comp, lastFrame, prevStatus,
                   cycle, filterVars, lifeVars, CalAux, results>>

CalReadDone(S) ==
    /\ ft' = S.ft
    /\ lastFrame' = S.lastFrame
    /\ calls' = S.calls

\* one blocking port read of readAndUpdate(true, true): lines 737-741.
\* The five frames of one trial belong to one sample of the environment.
CalRead ==
    /\ pc = "calibrate"
    /\ LoopContinues(trial, Ntrials)
    /\ rd <= Len(Chans)
    /\ ReadReturns(TRUE, feed[Chans[rd]])
    /\ \E k \in 1..NSamples :
         /\ rd > 1 => k = cur
         /\ (rd = 1 /\ trial > 0 /\ ~SampleMayChange(trial)) => k = cur
         /\ cur' = k
         /\ \E S \in {PortRead(Self, Chans[rd], TRUE, "calibrateOffset", k,
                              feed[Chans[rd]])} : CalReadDone(S)
    /\ rd' = rd + 1
    /\ UNCHANGED <<pc, Ntrials, trial, feed, inertial_measurements, w0, dw0, d2p0,
                   F, F_iDyn, Offset, encoders, q, dq, d2q, all_up, all_low,
                   icub, icub_sens, thread_status, test, comp, prevStatus, cycle,
                   first, same, exactSum, filterVars, lifeVars, auxVars>>

\* a trial that publishes a torque message
TrialSolveWriting(S) ==
    Strict(SolveSens(S.icub_sens, S.w0, S.dw0, S.d2p0),
           LAMBDA ws : [S |-> Call([S EXCEPT !.icub_sens = ws],
                                   [op |-> "write", port |-> "left_arm/Torques:o",
                                    msg |-> <<ArmAddress>>]),
                        p |-> Predicted(ws),
                        m |-> OnLimbs(LAMBDA l : S.ft[l])])

\* the rest of one trial: lines 743-774 of readAndUpdate (S), the predicted
\* wrenches of lines 692-700 (p) and the measured ones of 702-705 (m)
TrialSolve(S) ==
    Strict(SolveSens(S.icub_sens, S.w0, S.dw0, S.d2p0),
           LAMBDA ws : [S |-> [S EXCEPT !.icub_sens = ws],
                        p |-> Predicted(ws),
                        m |-> OnLimbs(LAMBDA l : S.ft[l])])

TrialResult(fails) == Strict(AfterReads(Self, TRUE, test, cur, fails), TrialSolve)

CalTrialDone(r) ==
    /\ inertial_measurements' = r.S.inertial_measurements
    /\ w0' = r.S.w0 /\ dw0' = r.S.dw0 /\ d2p0' = r.S.d2p0
    /\ encoders' = r.S.encoders
    /\ q' = r.S.q /\ dq' = r.S.dq /\ d2q' = r.S.d2q
    /\ all_up' = r.S.all_up /\ all_low' = r.S.all_low
    /\ icub' = r.S.icub
    /\ icub_sens' = r.S.icub_sens
    /\ calls' = r.S.calls
    /\ F_iDyn' = r.p
    /\ F' = r.m
    /\ Offset' = OnLimbs(LAMBDA l : Accumulate(Offset[l], r.m[l], r.p[l]))
    /\ first' = IF trial = 0 THEN OnLimbs(LAMBDA l : [m |-> r.m[l], p |-> r.p[l]])
                ELSE first
    /\ same' = OnLimbs(LAMBDA l :
                  trial = 0 \/ (same[l] /\ r.m[l] = first[l].m /\ r.p[l] = first[l].p))
    /\ exactSum' = OnLimbs(LAMBDA l :
                      Vec([n \in 1..WrenchLen |->
                              exactSum[l][n] + r.m[l][n] - r.p[l][n]]))
    /\ trace' = Append(trace, [m |-> r.m, p |-> r.p])

\* one trial after its five reads
CalTrial ==
    /\ pc = "calibrate"
    /\ LoopContinues(trial, Ntrials)
    /\ rd = Len(Chans) + 1
    /\ \A l \in Limbs : ft[l] # NULL      \* *ft_arm_left .. are dereferenced
    /\ \E fails \in CalFailSets : \E r \in {TrialResult(fails)} : CalTrialDone(r)
    /\ trial' = trial + 1
    /\ rd' = 1
    /\ UNCHANGED <<pc, Ntrials, cur, feed, ft, thread_status, test, comp,
                   lastFrame, prevStatus, cycle, filterVars, lifeVars, CalAux,
                   results>>

\* lines 712-729 of calibrateOffset, then, for the call threadInit makes,
\* the rest of threadInit (461-462)
CalibrateEnd ==
    /\ pc = "calibrate"
    /\ ~LoopContinues(trial, Ntrials)
    /\ \E off \in {OnLimbs(LAMBDA l : Average(Ntrials, Offset[l]))} :
         /\ Offset' = off
         /\ results' = Append(results, [n |-> Ntrials, trace |-> trace, off |-> off])
    /\ IF results = <<>>
       THEN thread_status' = STATUS_OK /\ prevStatus' = thread_status
       ELSE UNCHANGED <<thread_status, prevStatus>>
    /\ pc' = IF ThreadInitReturn THEN "running" ELSE "failed"
    /\ calls' = <<>>
    /\ UNCHANGED <<Ntrials, trial, rd, cur, feed, ft, inertial_measurements, w0,
                   dw0, d2p0, F, F_iDyn, encoders, q, dq, d2q, all_up, all_low,
                   icub, icub_sens, test, comp, lastFrame, cycle, first, same,
                   exactSum, filterVars, lifeVars, CalAux, trace>>

\* calibrateOffset(N) called again on the thread object, before any cycle
Reinvoke ==
    /\ pc = "running"
    /\ cycle = 0
    /\ Len(results) < MaxInvocations
    /\ pc' = "start"
    /\ Ntrials' \in 0..MaxTrials
    /\ UNCHANGED <<trial, rd, cur, feed, ft, inertial_measurements, w0, dw0, d2p0,
                   F, F_iDyn, Offset, encoders, q, dq, d2q, all_up, all_low, icub,
                   icub_sens, thread_status, test, comp, calls, lastFrame,
                   prevStatus, cycle, first, same, exactSum, filterVars, lifeVars,
                   auxVars>>

\* -------------------------------------------------------------------- run
\* run asking for blocking reads
RunWaitBlocking == TRUE

\* the waitMeasure argument of run's readAndUpdate call (line 485)
RunWait == FALSE

\* a status that is only ever lowered
StatusSticky(prev, b) == IF b THEN prev ELSE STATUS_DISCONNECTED

\* lines 484-489
StatusAfterRead(prev, b) == IF b THEN STATUS_OK ELSE STATUS_DISCONNECTED

\* run returning when readAndUpdate fails
LeavesRunOnFailure(b) == ~b

\* the failure branch of line 485 only flags: it does not leave run
LeavesRun(b) == FALSE

\* the estimated rates left in place
KeepJntAngVelAcc(S) == S

\* lines 954-969
setZeroJntAngVelAcc(S) ==
    [S EXCEPT !.dq = OnGroups(LAMBDA g : ZeroRates(Jnt(g))),
              !.d2q = OnGroups(LAMBDA g : ZeroRates(Jnt(g)))]

\* the raw frame negated, the offset forgotten
MeasuredWrenchNoOffset(ptr, old, off) ==
    IF ptr # NULL THEN VScale(Num(-1), ptr) ELSE old

\* lines 494-497: if(ft!=0) F = -1.0 * (*ft - Offset)
MeasuredWrench(ptr, old, off) ==
    IF ptr # NULL THEN VScale(Num(-1), VSub(ptr, off)) ELSE old

\* the torso outputs taken before the upper update
LowerBaseStale(upBefore, upAfter) == upBefore

\* the upper node whose torso outputs feed the lower update (lines 504-506)
LowerBaseOf(upBefore, upAfter) == upAfter

\* the four writes and one for the torso
TorqueWritesWithTorso ==
    << [limb |-> "right_leg", address |-> LegAddress],
       [limb |-> "left_leg", address |-> LegAddress],
       [limb |-> "right_arm", address |-> ArmAddress],
       [limb |-> "left_arm", address |-> ArmAddress],
       [limb |-> "torso", address |-> LegAddress + 1] >>

\* lines 519-522, in order
TorqueWrites ==
    << [limb |-> "right_leg", address |-> LegAddress],
       [limb |-> "left_leg", address |-> LegAddress],
       [limb |-> "right_arm", address |-> ArmAddress],
       [limb |-> "left_arm", address |-> ArmAddress] >>

ChainOf(l) == IF l \in UpSet THEN "upperTorso" ELSE "lowerTorso"

\* writeTorque(values, address, port)
writeTorque(S, values, address, port) ==
    Call(S, [op |-> "write", port |-> port, msg |-> <<address>> \o values])

RECURSIVE WriteAll(_, _, _)
WriteAll(S, ws, n) ==
    IF n > Len(ws) THEN S
    ELSE Strict(writeTorque(S, getTorques(S.icub[ChainOf(ws[n].limb)], ws[n].limb),
                            ws[n].address, ws[n].limb \o "/Torques:o"),
                LAMBDA S1 : WriteAll(S1, ws, n + 1))

UpdateCall(chain, node) ==
    [op |-> "update", chain |-> chain, kin |-> node.out.kin,
     FR |-> node.out.FR, FL |-> node.out.FL, Fup |-> node.out.Fup]

\* lines 499-507
ChainUpdates(S, Fn) ==
    LET F_up == Zeros(WrenchLen)
        up0 == S.icub.upperTorso
        up1 == update(up0, S.w0, S.dw0, S.d2p0, Fn["right_arm"], Fn["left_arm"], F_up)
        base == LowerBaseOf(up0, up1)
        low1 == update(S.icub.lowerTorso, getTorsoAngVel(base), getTorsoAngAcc(base),
                       getTorsoLinAcc(base), Fn["right_leg"], Fn["left_leg"], F_up)
        S1 == [S EXCEPT !.icub = [upperTorso |-> up1, lowerTorso |-> low1]]
    IN  Call(Call(S1, UpdateCall("upperTorso", up1)), UpdateCall("lowerTorso", low1))

\* lines 525-544: the two timing messages
PerfWrites(S) ==
    Call(Call(S, [op |-> "write", port |-> "performance/times:o",
                  msg |-> <<"ftNew", "startRun", "endRun-startRun",
                            "endCompute-startCompute">>]),
         [op |-> "write", port |-> "performance/ftread:o",
          msg |-> <<"ftNew", "startRun", "endRun-ftCur", "ftCur-ftRead">>])

\* lines 545-580: the comparison message
CompareWrite(S, Fn) ==
    LET ws == SolveSens(S.icub_sens, S.w0, S.dw0, S.d2p0)
        S1 == [S EXCEPT !.icub_sens = ws]
        p == Predicted(ws)
    IN  Call(S1, [op |-> "write", port |-> "performance/fterr:o",
                  msg |-> <<"ftNew", "startRun">>,
                  predicted |-> p["right_arm"] \o p["left_arm"] \o p["right_leg"]
                                \o p["left_leg"],
                  measured |-> Fn["right_arm"] \o Fn["left_arm"] \o Fn["right_leg"]
                               \o Fn["left_leg"]])

\* the body of run (lines 484-580): k is the sample the environment
\* presents, fresh the channels that deliver a new frame, fails the joint
\* groups whose read fails
RunCompute(R2, Fn, b) ==
    Strict(ChainUpdates(R2, Fn), LAMBDA R3 :
      Strict(WriteAll(R3, TorqueWrites, 1), LAMBDA R4 :
        Strict(IF test = VOCAB_TEST THEN PerfWrites(R4) ELSE R4, LAMBDA R5 :
          [S |-> IF comp = VOCAB_COMP THEN CompareWrite(R5, Fn) ELSE R5,
           F |-> Fn, status |-> StatusAfterRead(thread_status, b)])))

\* lines 490-497
RunMeasure(R1) ==
    Strict(setLowerMeasure(setUpperMeasure(setZeroJntAngVelAcc(R1), FALSE, test),
                           FALSE, test),
           LAMBDA R2 :
               Strict(OnLimbs(LAMBDA l : MeasuredWrench(R2.ft[l], F[l], Offset[l])),
                      LAMBDA Fn : RunCompute(R2, Fn, R1.b)))

RunAfterRead(R1) ==
    IF LeavesRun(R1.b)
    THEN [S |-> R1, F |-> F, status |-> StatusAfterRead(thread_status, R1.b)]
    ELSE RunMeasure(R1)

RunResult(k, fresh, fails) ==
    Strict(ReadPorts(Self, 1, RunWait, "run", k, fresh), LAMBDA R0 :
      Strict(AfterReads(R0, FALSE, test, k, fails), RunAfterRead))

RunDone(r) ==
    /\ thread_status' = r.status
    /\ prevStatus' = thread_status
    /\ ft' = r.S.ft
    /\ lastFrame' = r.S.lastFrame
    /\ inertial_measurements' = r.S.inertial_measurements
    /\ w0' = r.S.w0 /\ dw0' = r.S.dw0 /\ d2p0' = r.S.d2p0
    /\ encoders' = r.S.encoders
    /\ q' = r.S.q /\ dq' = r.S.dq /\ d2q' = r.S.d2q
    /\ all_up' = r.S.all_up /\ all_low' = r.S.all_low
    /\ icub' = r.S.icub
    /\ icub_sens' = r.S.icub_sens
    /\ calls' = r.S.calls
    /\ F' = r.F

\* run with an assignment that clears the offsets
RunOffsetCleared(off) == OnLimbs(LAMBDA l : Zeros(WrenchLen))

\* run has no assignment to Offset_LArm .. Offset_RLeg
RunOffset(off) == off

\* run passing a sample through the filter
RunFilterMemoryUsed(mem) == lpf_ord1_3hz(mem, Num(1), FirstGyro).mem

\* run makes no call of lpf_ord1_3hz: the filter memory after a cycle
RunFilterMemory(mem) == mem

\* a thread that switches both modes on
ThreadModesEnabled(t, c) == [test |-> VOCAB_TEST, comp |-> VOCAB_COMP]

\* no statement after the constructor assigns test or comp
ThreadModes(t, c) == [test |-> t, comp |-> c]

\* one cycle
Run ==
    /\ pc = "running"
    /\ cycle < MaxCycles
    /\ cycle' = cycle + 1
    /\ \E k \in 1..NSamples, fresh \in NewMasks, fails \in FailSets :
         /\ \A c \in ChanSet : ReadReturns(RunWait, c \in fresh)
         /\ \E r \in {RunResult(k, fresh, fails)} : RunDone(r)
    /\ Offset' = RunOffset(Offset)
    /\ \E m \in {RunFilterMemory(FilterMem)} : xv' = m.xv /\ yv' = m.yv
    /\ \E m \in {ThreadModes(test, comp)} : test' = m.test /\ comp' = m.comp
    /\ UNCHANGED <<pc, Ntrials, trial, rd, cur, feed, F_iDyn,
                   first, same, exactSum, g_out, inb, nIn, out, nOut, lastCall, unit,
                   lifeVars, auxVars>>

\* run up to and including line 484: thread_status = STATUS_OK
RunEnter ==
    /\ pc = "running"
    /\ cycle < MaxCycles
    /\ pc' = "inrun"
    /\ thread_status' = STATUS_OK
    /\ prevStatus' = thread_status
    /\ UNCHANGED <<Ntrials, trial, rd, cur, feed, ft, inertial_measurements, w0,
                   dw0, d2p0, F, F_iDyn, Offset, encoders, q, dq, d2q, all_up,
                   all_low, icub, icub_sens, test, comp, calls, lastFrame, cycle,
                   first, same, exactSum, filterVars, lifeVars, auxVars>>

\* the rest of run, from line 485
RunBody ==
    /\ pc = "inrun"
    /\ pc' = "running"
    /\ cycle' = cycle + 1
    /\ \E k \in 1..NSamples, fresh \in NewMasks, fails \in FailSets :
         /\ \A c \in ChanSet : ReadReturns(RunWait, c \in fresh)
         /\ \E r \in {RunResult(k, fresh, fails)} : RunDone(r)
    /\ Offset' = RunOffset(Offset)
    /\ \E m \in {RunFilterMemory(FilterMem)} : xv' = m.xv /\ yv' = m.yv
    /\ \E m \in {ThreadModes(test, comp)} : test' = m.test /\ comp' = m.comp
    /\ UNCHANGED <<Ntrials, trial, rd, cur, feed, F_iDyn,
                   first, same, exactSum, g_out, inb, nIn, out, nOut, lastCall, unit,
                   lifeVars, auxVars>>

\* updateModule (lines 1266-1292) once the thread has started: the module's
\* thread reads thread_status through getThreadStatus (465-468) and returns
\* false when it reads STATUS_DISCONNECTED
updateModule ==
    /\ pc \in {"running", "inrun"}
    /\ polled' = [val |-> thread_status,
                  before |-> IF pc = "inrun" THEN prevStatus ELSE thread_status,
                  cyc |-> cycle, mid |-> pc = "inrun",
                  ret |-> thread_status # STATUS_DISCONNECTED]
    /\ UNCHANGED <<threadVars, filterVars, lifeVars, axes, sized, badIndex, apc,
                   overrun, lateWrites, relCount, trace, results>>

\* ------------------------------------------------------------- dataFilter
\* the channels a message of the given length feeds
Fed(x) == {j \in 0..(MAX_JN - 1) : j < Len(x)}

\* a direct call lpf_ord1_3hz(x, j)
lpfCallDone(r, x, j) ==
    /\ xv' = r.mem.xv
    /\ yv' = r.mem.yv
    /\ lastCall' = [x |-> x, j |-> j, ret |-> r.ret]
    /\ unit' = [k \in DOMAIN unit |-> unit[k] /\ (k = j => x = Num(1))]

lpfCall ==
    /\ \E j \in CallIndices, x \in CallInputs :
         \E r \in {lpf_ord1_3hz(FilterMem, x, j)} : lpfCallDone(r, x, j)
    /\ UNCHANGED <<threadVars, lifeVars, auxVars, g_out, inb, nIn, out, nOut>>

\* lines 988-1003 for the message x with envelope info; junk is what the
\* reads past the end of the filtered vector return.  write() is called
\* whether or not port_filtered is still open.
onReadDone(r, x, info, junk) ==
    /\ xv' = r.mem.xv
    /\ yv' = r.mem.yv
    /\ g_out' = GyroRead(r.inertial, junk)
    /\ inb' = [b |-> x, env |-> info]
    /\ overrun' = PastEnd(Len(r.inertial))
    /\ IF "filtered/inertial:o" \in mports
       THEN /\ out' = [data |-> GyroRead(r.inertial, junk), env |-> info]
            /\ nOut' = nOut + 1
            /\ UNCHANGED lateWrites
       ELSE /\ lateWrites' = lateWrites + 1
            /\ UNCHANGED <<out, nOut>>
    /\ unit' = [k \in DOMAIN unit |-> unit[k] /\ (k \in Fed(x) => x[k + 1] = Num(1))]

\* the callback for one message among the given kinds
onReadFrom(kinds) ==
    /\ "unfiltered/inertial:i" \in mports
    /\ nIn < MaxMsgs
    /\ nIn' = nIn + 1
    /\ \E kind \in kinds, info \in Stamps :
         \E r \in {FilterAll(FilterMem, Inbound(kind), 0, <<>>)} :
            \E junk \in (IF PastEnd(Len(r.inertial)) = {} THEN {0} ELSE Garbage) :
               onReadDone(r, Inbound(kind), info, junk)
    /\ UNCHANGED <<threadVars, lifeVars, lastCall, axes, sized, badIndex, apc,
                   relCount, polled, trace, results>>

\* the callback of the inbound port: one raw inertial message arrives, of
\* the size the inertial channel carries or larger
onRead == onReadFrom(InboundKinds)

\* the callback for a message of any size
onReadAnySize == onReadFrom(InboundKinds \cup ShortKinds)

\* ------------------------------------------------------- stop and release
AllEst == {"linEstUp", "quadEstUp", "linEstLow", "quadEstLow", "InertialEst"}

InPort(c) == IF c = "inertial" THEN "inertial:i" ELSE c \o "/FT:i"

PerfPorts == {"performance/times:o", "performance/ftread:o", "performance/fterr:o"}

\* the ports the constructor opens (lines 389-407, 448-453)
ThreadPorts ==
    {InPort(c) : c \in ChanSet} \cup {l \o "/Torques:o" : l \in Limbs} \cup PerfPorts

\* the ports threadRelease closes (lines 614-643)
ReleasedPorts ==
    {l \o "/Torques:o" : l \in Limbs}
      \cup {InPort("inertial"), InPort("right_arm"), InPort("left_arm")} \cup PerfPorts

ModulePorts == {"filtered/inertial:o", "unfiltered/inertial:i"}

\* close() with the device drivers closed first
CloseOrderDriversFirst == <<"drivers", "inv_dyn", "port_filtered", "port_inertial_input">>

\* the steps of close(), in order (lines 1191-1248)
CloseOrder == <<"inv_dyn", "port_filtered", "drivers", "port_inertial_input">>

CloseStep == IF mpc <= Len(CloseOrder) THEN CloseOrder[mpc] ELSE "done"

\* inv_dyn->stop() (line 1193): the loop is asked to end and ends after the
\* cycle in progress; stop() returns once threadRelease has run
stop ==
    /\ CloseStep = "inv_dyn"
    /\ pc = "running"
    /\ pc' = "stopping"
    /\ UNCHANGED <<Ntrials, trial, rd, cur, feed, ft, inertial_measurements, w0,
                   dw0, d2p0, F, F_iDyn, Offset, encoders, q, dq, d2q, all_up,
                   all_low, icub, icub_sens, thread_status, test, comp, calls,
                   lastFrame, prevStatus, cycle, first, same, exactSum,
                   filterVars, lifeVars, auxVars>>

\* the resources one run of threadRelease releases: an estimator when its
\* pointer is non-null (the pointer is then set to 0, lines 586-610), and
\* every port passed to closePort, whose test is on its own parameter and
\* which sets only that parameter to 0 (648-658): the member keeps its value
ReleasedNow(allocated) == allocated \cup ReleasedPorts

\* the body of threadRelease (lines 583-646)
Release ==
    /\ est' = {}
    /\ ports' = ports \ ReleasedPorts
    /\ relCount' = [r \in DOMAIN relCount |->
                       IF r \in ReleasedNow(est) THEN relCount[r] + 1 ELSE relCount[r]]
    /\ UNCHANGED <<Ntrials, trial, rd, cur, feed, ft, inertial_measurements, w0,
                   dw0, d2p0, F, F_iDyn, Offset, encoders, q, dq, d2q, all_up,
                   all_low, icub, icub_sens, thread_status, test, comp, calls,
                   lastFrame, prevStatus, cycle, first, same, exactSum,
                   filterVars, dd, mports, mpc, axes, sized, badIndex, apc,
                   overrun, lateWrites, polled, trace, results>>

\* lines 583-646, run by the thread when its loop has ended
threadRelease ==
    /\ pc = "stopping"
    /\ pc' = "released"
    /\ Release

\* threadRelease invoked again.  closePort then interrupts, closes and
\* deletes ports that were deleted before: the program goes on or crashes.
threadReleaseAgain ==
    /\ pc = "released"
    /\ \A r \in DOMAIN relCount : relCount[r] < MaxReleases
    /\ pc' \in {"released", "crashed"}
    /\ Release

\* one step of close() other than the call of stop()
close ==
    /\ pc \in {"running", "released", "deleted"}
    /\ CloseStep # "done"
    /\ mpc' = mpc + 1
    /\ CASE CloseStep = "inv_dyn" ->
              \* stop() has returned: delete inv_dyn
              /\ pc = "released"
              /\ pc' = "deleted"
              /\ UNCHANGED <<dd, mports>>
         [] CloseStep = "port_filtered" ->
              /\ mports' = mports \ {"filtered/inertial:o"}
              /\ UNCHANGED <<pc, dd>>
         [] CloseStep = "drivers" ->
              /\ dd' = {}
              /\ UNCHANGED <<pc, mports>>
         [] OTHER ->
              /\ mports' = mports \ {"unfiltered/inertial:i"}
              /\ UNCHANGED <<pc, dd>>
    /\ UNCHANGED <<Ntrials, trial, rd, cur, feed, ft, inertial_measurements, w0,
                   dw0, d2p0, F, F_iDyn, Offset, encoders, q, dq, d2q, all_up,
                   all_low, icub, icub_sens, thread_status, test, comp, calls,
                   lastFrame, prevStatus, cycle, first, same, exactSum,
                   filterVars, est, ports, auxVars>>

\* ------------------------------------------- init_upper, init_lower, reads
\* the axis counts getAxes may report for a joint group
AxisCounts == {0, 3, 6, 7, 16}

\* no buffer sized yet
Unsized ==
    [enc |-> OnGroups(LAMBDA g : 0), q |-> OnGroups(LAMBDA g : 0),
     all_up |-> 0, all_low |-> 0]

\* init_upper (lines 293-335): the encoder buffers take the reported axis
\* counts, q/dq/d2q the fixed lengths 7, 7, 3, and all_q_up, all_dq_up,
\* all_d2q_up the sum allJnt of the reported counts
SizedUpper(sz, ax) ==
    [sz EXCEPT !.enc.left_arm = ax["left_arm"], !.q.left_arm = ArmJnt,
               !.enc.right_arm = ax["right_arm"], !.q.right_arm = ArmJnt,
               !.enc.head = ax["head"], !.q.head = HeadJnt,
               !.all_up = ax["left_arm"] + ax["right_arm"] + ax["head"]]

\* init_lower (lines 336-379)
SizedLower(sz, ax) ==
    [sz EXCEPT !.enc.left_leg = ax["left_leg"], !.q.left_leg = LegJnt,
               !.enc.right_leg = ax["right_leg"], !.q.right_leg = LegJnt,
               !.enc.torso = ax["torso"], !.q.torso = TorsoJnt,
               !.all_low = ax["left_leg"] + ax["right_leg"] + ax["torso"]]

init_upper ==
    /\ apc = "construct"
    /\ sized' = SizedUpper(sized, axes)
    /\ apc' = "init_upper"
    /\ UNCHANGED <<threadVars, filterVars, lifeVars, axes, badIndex, overrun,
                   lateWrites, relCount, polled, trace, results>>

init_lower ==
    /\ apc = "init_upper"
    /\ sized' = SizedLower(sized, axes)
    /\ apc' = "ready"
    /\ UNCHANGED <<threadVars, filterVars, lifeVars, axes, badIndex, overrun,
                   lateWrites, relCount, polled, trace, results>>

\* an access: the buffer, the index used and the size of the buffer
Access(buf, i, size) == [buf |-> buf, i |-> i, size |-> size]

\* the accesses one group's loops make (lines 833-847 and 851-862, 789-803
\* and 806-817): encoder buffer at enc(i), q at i, and the concatenated
\* vectors at off + i, for i below the length of q
GroupAccesses(sz, g, allName, allSize, off, reversed) ==
    UNION { { Access("encoders_" \o g, IF reversed THEN 2 - i ELSE i, sz.enc[g]),
              Access("q_" \o g, i, sz.q[g]),
              Access("dq_" \o g, i, sz.q[g]),
              Access("d2q_" \o g, i, sz.q[g]),
              Access("all_q_" \o allName, off + i, allSize),
              Access("all_dq_" \o allName, off + i, allSize),
              Access("all_d2q_" \o allName, off + i, allSize) }
            : i \in 0..(sz.q[g] - 1) }

\* getUpperEncodersSpeedAndAcceleration (lines 821-863); the estimators
\* return a vector of the length of the one they are given
UpperAccesses(sz) ==
    GroupAccesses(sz, "head", "up", sz.all_up, 0, FALSE)
      \cup GroupAccesses(sz, "left_arm", "up", sz.all_up, sz.q.head, FALSE)
      \cup GroupAccesses(sz, "right_arm", "up", sz.all_up,
                         sz.q.head + sz.q.left_arm, FALSE)

\* getLowerEncodersSpeedAndAcceleration (lines 777-818): the torso buffer
\* is read at 2-i
LowerAccesses(sz) ==
    GroupAccesses(sz, "torso", "low", sz.all_low, 0, TRUE)
      \cup GroupAccesses(sz, "left_leg", "low", sz.all_low, sz.q.torso, FALSE)
      \cup GroupAccesses(sz, "right_leg", "low", sz.all_low,
                         sz.q.torso + sz.q.left_leg, FALSE)

\* yarp::sig::Vector::operator() does not check its index
OutOfBuffer(a) == a.i < 0 \/ a.i >= a.size

\* the first read of the joints after construction
readUpper ==
    /\ apc = "ready"
    /\ badIndex' = badIndex \cup {a \in UpperAccesses(sized) : OutOfBuffer(a)}
    /\ apc' = "read_upper"
    /\ UNCHANGED <<threadVars, filterVars, lifeVars, axes, sized, overrun,
                   lateWrites, relCount, polled, trace, results>>

readLower ==
    /\ apc = "read_upper"
    /\ badIndex' = badIndex \cup {a \in LowerAccesses(sized) : OutOfBuffer(a)}
    /\ apc' = "read_lower"
    /\ UNCHANGED <<threadVars, filterVars, lifeVars, axes, sized, overrun,
                   lateWrites, relCount, polled, trace, results>>

\* ------------------------------------------------------------ specification
\* the state the constructor leaves (lines 382-456); thread_status is not
\* initialized there and holds an arbitrary value until threadInit sets it
InitFields(trials, tests, comps) ==
    /\ pc = "start"
    /\ Ntrials \in trials
    /\ trial = 0
    /\ rd = 1
    /\ cur = 1
    /\ feed \in {OnChans(LAMBDA c : c \notin dead) : dead \in SUBSET ChanSet}
    /\ ft = OnChans(LAMBDA c : NULL)
    /\ inertial_measurements = Zeros(InertialLen)
    /\ w0 = Zeros(3)
    /\ dw0 = ZeroRates(3)
    /\ d2p0 = Zeros(3)
    /\ F = OnLimbs(LAMBDA l : Zeros(WrenchLen))
    /\ F_iDyn = OnLimbs(LAMBDA l : Zeros(WrenchLen))
    /\ Offset = OnLimbs(LAMBDA l : Zeros(WrenchLen))
    /\ encoders = OnGroups(LAMBDA g : Zeros(Axes(g)))
    /\ q = OnGroups(LAMBDA g : Zeros(Jnt(g)))
    /\ dq = OnGroups(LAMBDA g : ZeroRates(Jnt(g)))
    /\ d2q = OnGroups(LAMBDA g : ZeroRates(Jnt(g)))
    /\ all_up = [q |-> Zeros(Axes("left_arm") + Axes("right_arm") + Axes("head")),
                 dq |-> ZeroRates(Axes("left_arm") + Axes("right_arm") + Axes("head")),
                 d2q |-> ZeroRates(Axes("left_arm") + Axes("right_arm") + Axes("head"))]
    /\ all_low = [q |-> Zeros(Axes("left_leg") + Axes("right_leg") + Axes("torso")),
                  dq |-> ZeroRates(Axes("left_leg") + Axes("right_leg") + Axes("torso")),
                  d2q |-> ZeroRates(Axes("left_leg") + Axes("right_leg") + Axes("torso"))]
    /\ icub = WholeBodyInit
    /\ icub_sens = WholeBodyInit
    /\ thread_status \in {STATUS_OK, STATUS_DISCONNECTED, STATUS_UNSET}
    /\ test \in tests
    /\ comp \in comps
    /\ calls = <<>>
    /\ lastFrame = OnChans(LAMBDA c : NULL)
    /\ prevStatus = thread_status
    /\ cycle = 0
    /\ first = OnLimbs(LAMBDA l : [m |-> Zeros(WrenchLen), p |-> Zeros(WrenchLen)])
    /\ same = OnLimbs(LAMBDA l : TRUE)
    /\ exactSum = OnLimbs(LAMBDA l : Zeros(WrenchLen))
    /\ xv = FilterMem0.xv
    /\ yv = FilterMem0.yv
    /\ g_out = Zeros(GyroLen)
    /\ inb = [b |-> <<>>, env |-> 0]
    /\ nIn = 0
    /\ out = [data |-> <<>>, env |-> 0]
    /\ nOut = 0
    /\ lastCall = [x |-> 0, j |-> -1, ret |-> 0]
    /\ unit = [j \in 0..(MAX_JN - 1) |-> TRUE]
    /\ est = AllEst
    /\ ports = ThreadPorts
    /\ dd = Groups
    /\ mports = ModulePorts
    /\ mpc = 1

\* the constructor sets test and comp to 0 (lines 385-386)
InitCore(trials) == InitFields(trials, {0}, {0})

\* the history variables when the constructor returns
HistoryInit ==
    /\ badIndex = {}
    /\ overrun = {}
    /\ lateWrites = 0
    /\ relCount = [r \in AllEst \cup ThreadPorts |-> 0]
    /\ polled = [val |-> STATUS_UNSET, before |-> STATUS_UNSET, cyc |-> -1,
                 mid |-> FALSE, ret |-> TRUE]
    /\ trace = <<>>
    /\ results = <<>>

\* the joint groups report the axis counts of the model, and init_upper and
\* init_lower have run
InitWith(trials) ==
    /\ InitCore(trials)
    /\ axes = OnGroups(Axes)
    /\ sized = SizedLower(SizedUpper(Unsized, OnGroups(Axes)), OnGroups(Axes))
    /\ apc = "ready"
    /\ HistoryInit

\* the program: threadInit calibrates over InitTrials trials
Init == InitWith({InitTrials})

Next == CalibrateBegin \/ CalRead \/ CalTrial \/ CalibrateEnd \/ Run

Spec == Init /\ [][Next]_vars

\* calibrateOffset as a function of its argument
InitCal == InitWith(0..MaxTrials)

SpecCal == InitCal /\ [][Next]_vars

\* the cyclic thread keeps executing: a step that can be taken is taken
Step == CalibrateBegin \/ CalRead \/ CalTrial \/ CalibrateEnd

FairSpec == Init /\ [][Next]_vars /\ WF_vars(Step)

\* the cyclic thread until the module closes
StopNext == Next \/ stop \/ threadRelease \/ close

SpecStop == Init /\ [][StopNext]_vars

\* the constructed program with every input channel fed
InitLive == Init /\ (\A c \in ChanSet : feed[c]) /\ thread_status = STATUS_UNSET

\* the prefilter alone: inbound messages and direct calls of the filter
FilterNext == lpfCall \/ onRead

SpecFilter == InitLive /\ [][FilterNext]_vars

\* the thread with the mode flags holding any of the values run() tests
\* them against
InitModes ==
    /\ InitFields({InitTrials}, {0, VOCAB_TEST, VOCAB_COMP}, {0, VOCAB_COMP})
    /\ \A c \in ChanSet : feed[c]
    /\ thread_status = STATUS_UNSET
    /\ axes = OnGroups(Axes)
    /\ sized = SizedLower(SizedUpper(Unsized, OnGroups(Axes)), OnGroups(Axes))
    /\ apc = "ready"
    /\ HistoryInit

SpecModes == InitModes /\ [][Next]_vars

\* the cyclic thread, a cycle in two steps, and the polls of the module
PollNext ==
    CalibrateBegin \/ CalRead \/ CalTrial \/ CalibrateEnd \/ RunEnter \/ RunBody
      \/ updateModule

SpecPoll == InitLive /\ [][PollNext]_vars

\* calibrateOffset invoked again, with any number of trials
InitRecal == InitCal /\ (\A c \in ChanSet : feed[c]) /\ thread_status = STATUS_UNSET

RecalNext == Step \/ Reinvoke

SpecRecal == InitRecal /\ [][RecalNext]_vars

\* the thread until it is released, and threadRelease invoked again
ReleaseNext == StopNext \/ threadReleaseAgain

SpecRelease == InitLive /\ [][ReleaseNext]_vars

\* the prefilter receiving messages of any size
SizesNext == lpfCall \/ onReadAnySize

SpecSizes == InitLive /\ [][SizesNext]_vars

\* the thread, close() of the module and the callback, interleaved
ShutdownNext == StopNext \/ onRead

SpecShutdown == InitLive /\ [][ShutdownNext]_vars

\* the constructor before init_upper, for any axis counts reported
InitAxes ==
    /\ InitCore({InitTrials})
    /\ \A c \in ChanSet : feed[c]
    /\ thread_status = STATUS_UNSET
    /\ axes \in [Groups -> AxisCounts]
    /\ sized = Unsized
    /\ apc = "construct"
    /\ HistoryInit

AxesNext == init_upper \/ init_lower \/ readUpper \/ readLower

SpecAxes == InitAxes /\ [][AxesNext]_vars

\* the cyclic thread and the prefilter's callback, interleaved
BothNext == Next \/ onRead

SpecBoth == InitLive /\ [][BothNext]_vars

\* ------------------------------------------------------------- properties
\* a cycle of run has completed; calls is the log of that cycle
RanCycle == pc = "running" /\ cycle > 0

CallIx == 1..Len(calls)

EncoderReadFailed ==
    \E n \in CallIx : calls[n].op = "getEncoders" /\ ~calls[n].ok

UpdateAt(n, chain) == calls[n].op = "update" /\ calls[n].chain = chain

TorquePort(g) == g \o "/Torques:o"

\* the torque messages of the cycle, in the order they were written
TorqueMsgs ==
    SelectSeq(calls, LAMBDA e : e.op = "write"
                                /\ e.port \in {TorquePort(g) : g \in Groups})

TorqueMsgsOn(g) == SelectSeq(TorqueMsgs, LAMBDA e : e.port = TorquePort(g))

\* the chain updates and torque writes of the cycle, in order
CycleShape ==
    LET steps == SelectSeq(calls, LAMBDA e : e.op \in {"update", "write"})
    IN  [n \in 1..Len(steps) |->
            IF steps[n].op = "update" THEN <<"update", steps[n].chain>>
            ELSE <<"write", steps[n].port, Head(steps[n].msg)>>]

FullShape ==
    << <<"update", "upperTorso">>, <<"update", "lowerTorso">>,
       <<"write", TorquePort("right_leg"), LegAddress>>,
       <<"write", TorquePort("left_leg"), LegAddress>>,
       <<"write", TorquePort("right_arm"), ArmAddress>>,
       <<"write", TorquePort("left_arm"), ArmAddress>> >>

\* the wrench of limb l the chain update of the cycle was called with
UsedWrench(l) ==
    LET n == CHOOSE i \in CallIx : UpdateAt(i, ChainOf(l))
    IN  IF l \in {"right_arm", "right_leg"} THEN calls[n].FR ELSE calls[n].FL

\* -(raw - off), component by component
Compensated(raw, off) == [n \in 1..WrenchLen |-> FNeg(FSub(raw[n], off[n]))]

\* C1: at the end of a cycle the status is DISCONNECTED exactly when an
\* encoder read of that cycle failed for some joint group, and OK otherwise,
\* whatever the status was before the cycle.
C1_StatusPerCycle ==
    RanCycle =>
        thread_status = IF EncoderReadFailed THEN STATUS_DISCONNECTED ELSE STATUS_OK

\* a successful cycle that follows a failed one
C1_Witness ==
    /\ RanCycle
    /\ prevStatus = STATUS_DISCONNECTED
    /\ ~EncoderReadFailed
    /\ thread_status = STATUS_OK

\* C2: in every cycle the upper chain is updated before the lower chain, and
\* the base motion the lower update is called with is the torso output of the
\* upper chain's solution of that same cycle.
C2_LowerUsesSameCycleUpper ==
    RanCycle =>
        \E i, j \in CallIx :
            /\ i < j
            /\ UpdateAt(i, "upperTorso")
            /\ UpdateAt(j, "lowerTorso")
            /\ \A n \in CallIx : calls[n].op = "update" => n \in {i, j}
            /\ calls[i].kin.inert = <<w0, dw0, d2p0>>
            /\ calls[j].kin.inert = << <<"TorsoAngVel", calls[i].kin>>,
                                       <<"TorsoAngAcc", calls[i].kin>>,
                                       <<"TorsoLinAcc", calls[i].kin>> >>

\* a second cycle whose upper solution differs from the one before
C2_Witness ==
    /\ RanCycle
    /\ cycle > 1
    /\ \E i \in CallIx : UpdateAt(i, "upperTorso")
    /\ \E j \in CallIx :
          /\ UpdateAt(j, "lowerTorso")
          /\ calls[j].kin.inert[1] = getTorsoAngVel(icub.upperTorso)
    /\ ft["inertial"] # NULL

\* C3, as stated: in a cycle in which a limb's channel delivers no new frame
\* (the first cycle after calibration included), the wrench the chain update
\* uses for the limb is -(last delivered frame - Offset).
C3_RetainedWrenchCompensated ==
    RanCycle =>
        \A l \in Limbs :
            (ft[l] = NULL /\ lastFrame[l] # NULL) =>
                UsedWrench(l) = Compensated(lastFrame[l], Offset[l])

C5_OffsetIsExactMean ==
    (pc = "running" /\ cycle = 0) =>
        \A l \in Limbs : \A n \in 1..WrenchLen :
            /\ IsFinite(Offset[l][n])
            /\ (same[l] /\ Ntrials > 0) =>
                  Offset[l][n] = first[l].m[n] - first[l].p[n]

\* the joint groups of a chain
GroupsOf(chain) == IF chain = "upperTorso" THEN UpSet ELSE LowSet

\* what the derivative estimators returned in the cycle, per joint group
EstimatedRate(g) ==
    CASE g = "head" -> Slice(all_up.dq, 0, HeadJnt)
      [] g = "left_arm" -> Slice(all_up.dq, HeadJnt, ArmJnt)
      [] g = "right_arm" -> Slice(all_up.dq, HeadJnt + ArmJnt, ArmJnt)
      [] g = "torso" -> Slice(all_low.dq, 0, TorsoJnt)
      [] g = "left_leg" -> Slice(all_low.dq, TorsoJnt, LegJnt)
      [] OTHER -> Slice(all_low.dq, TorsoJnt + LegJnt, LegJnt)

EstimatedAcc(g) ==
    CASE g = "head" -> Slice(all_up.d2q, 0, HeadJnt)
      [] g = "left_arm" -> Slice(all_up.d2q, HeadJnt, ArmJnt)
      [] g = "right_arm" -> Slice(all_up.d2q, HeadJnt + ArmJnt, ArmJnt)
      [] g = "torso" -> Slice(all_low.d2q, 0, TorsoJnt)
      [] g = "left_leg" -> Slice(all_low.d2q, TorsoJnt, LegJnt)
      [] OTHER -> Slice(all_low.d2q, TorsoJnt + LegJnt, LegJnt)

\* the estimators were asked about the cycle's joint positions
EstimatedThisCycle ==
    \A e \in {"linEstUp", "quadEstUp", "linEstLow", "quadEstLow"} :
        \E n \in CallIx :
            /\ calls[n].op = "estimate"
            /\ calls[n].est = e
            /\ calls[n].x = (IF e \in {"linEstUp", "quadEstUp"} THEN all_up.q
                             ELSE all_low.q)

\* C6: in every cycle the derivative estimators are invoked on the cycle's
\* joint positions, but both chain updates are evaluated with those
\* positions and with zero velocity and zero acceleration for every joint
\* group: run overwrites the estimates with zeros before the updates.
C6_ChainsUseZeroRates ==
    RanCycle =>
        /\ EstimatedThisCycle
        /\ \A n \in CallIx :
              calls[n].op = "update" =>
                  \A g \in GroupsOf(calls[n].chain) :
                      /\ calls[n].kin.ang[g] = Deg2Rad(q[g])
                      /\ calls[n].kin.dang[g] = Deg2Rad(ZeroRates(Jnt(g)))
                      /\ calls[n].kin.d2ang[g] = Deg2Rad(ZeroRates(Jnt(g)))

\* a cycle whose encoders were all read: the estimates exist and differ from
\* what the updates were given
C6_Witness ==
    /\ RanCycle
    /\ ~EncoderReadFailed
    /\ EstimatedThisCycle
    /\ \E n \in CallIx :
          /\ UpdateAt(n, "upperTorso")
          /\ calls[n].kin.dang["head"] # Deg2Rad(EstimatedRate("head"))

\* C6, as stated: the velocity and acceleration of every joint group in both
\* chain updates are the ones the derivative estimator derived in that cycle.
C6_ChainsUseEstimates ==
    RanCycle =>
        \A n \in CallIx :
            calls[n].op = "update" =>
                \A g \in GroupsOf(calls[n].chain) :
                    /\ calls[n].kin.dang[g] = Deg2Rad(EstimatedRate(g))
                    /\ calls[n].kin.d2ang[g] = Deg2Rad(EstimatedAcc(g))

\* C7: in a cycle in which a limb's channel delivers a new frame, the wrench
\* the chain update is called with for that limb is -(frame - Offset) in
\* every component.
C7_NewFrameCompensated ==
    RanCycle =>
        \A l \in Limbs :
            ft[l] # NULL =>
                /\ ft[l] = lastFrame[l]
                /\ UsedWrench(l) = Compensated(ft[l], Offset[l])
                /\ F[l] = UsedWrench(l)

\* a cycle in which one limb has a new frame and another has none
C7_Witness ==
    /\ RanCycle
    /\ ft["left_arm"] # NULL
    /\ ft["right_arm"] = NULL
    /\ UsedWrench("left_arm") # UsedWrench("right_arm")

\* C8: every port read made from run is non-blocking and run reads each of
\* the five channels once per cycle; a blocking read comes from
\* calibrateOffset only.
C8_RunNeverBlocks ==
    /\ \A n \in CallIx :
          calls[n].op = "read" =>
              /\ calls[n].from \in {"run", "calibrateOffset"}
              /\ calls[n].wait <=> (calls[n].from = "calibrateOffset")
    /\ RanCycle =>
          [n \in 1..Len(Chans) |-> <<calls[n].op, calls[n].port, calls[n].wait>>]
            = [n \in 1..Len(Chans) |-> <<"read", Chans[n], FALSE>>]

\* a cycle that read all five channels and found nothing new on any
C8_Witness ==
    /\ RanCycle
    /\ \A c \in ChanSet : ft[c] = NULL
    /\ Cardinality({n \in CallIx : calls[n].op = "read" /\ calls[n].from = "run"})
         = Len(Chans)

AllFeed == \A c \in ChanSet : feed[c]

\* threadInit has returned and no cycle has run yet
CalibrationDone == pc = "running" /\ cycle = 0 /\ trial = Ntrials

\* C9: when every channel delivers, calibration ends, threadInit returns
\* and the status is OK; when some channel never delivers, calibration never
\* ends, threadInit never sets the status and no cycle runs.
C9_CalibrationEndsIffReadsReturn ==
    /\ AllFeed => <>(CalibrationDone /\ thread_status = STATUS_OK)
    /\ [](~AllFeed => (pc \in {"start", "calibrate"} /\ cycle = 0))
    /\ [][~AllFeed => thread_status' = thread_status]_vars

\* calibration over, all its trials done
C9_Witness ==
    /\ CalibrationDone
    /\ trial = InitTrials
    /\ thread_status = STATUS_OK
    /\ AllFeed

\* C10: a cycle in which an encoder read fails still performs the upper and
\* the lower chain update and publishes the same torque messages, on the
\* same ports with the same addresses and lengths, as a successful cycle;
\* its status is DISCONNECTED.
C10_FailedCycleCompletes ==
    (RanCycle /\ EncoderReadFailed) =>
        /\ CycleShape = FullShape
        /\ thread_status = STATUS_DISCONNECTED

C10_Witness ==
    /\ RanCycle
    /\ EncoderReadFailed
    /\ Len(TorqueMsgs) = Len(TorqueWrites)
    /\ thread_status = STATUS_DISCONNECTED

\* the writes to an output port among the calls of the last step
Writes == SelectSeq(calls, LAMBDA e : e.op = "write")

\* C11: nothing is written to a torque or diagnostic port before the initial
\* calibration has completed: no step of calibrateOffset writes to an output
\* port, and a cycle of run happens only once threadInit has finished all the
\* trials and returned.
C11_NoOutputBeforeCalibrated ==
    /\ (pc \in {"start", "calibrate"} \/ cycle = 0) => Writes = <<>>
    /\ cycle > 0 => (pc = "running" /\ ~LoopContinues(trial, Ntrials))

\* the last trial of the calibration has made its calls
C11_Witness ==
    /\ pc = "calibrate"
    /\ trial = Ntrials
    /\ Ntrials = InitTrials
    /\ Len(calls) > 0
    /\ Writes = <<>>

\* C12: a cycle of run leaves the four offsets as calibrateOffset left them,
\* whatever frames arrive and whether or not an encoder read fails.
C12_RunKeepsOffsets ==
    [][(pc = "running" \/ cycle' = cycle + 1) => Offset' = Offset]_vars

\* a second cycle with a new frame and a failed read, the offsets not zero
C12_Witness ==
    /\ RanCycle
    /\ cycle > 1
    /\ EncoderReadFailed
    /\ ft["left_arm"] # NULL
    /\ \A l \in Limbs : Offset[l] # Zeros(WrenchLen)

\* the calls of the inertial derivative estimator in a call log
InertialEstCalls(log) ==
    SelectSeq(log, LAMBDA e : e.op = "estimate" /\ e.est = "InertialEst")

\* C20: a cycle in which no inertial frame arrives leaves w0, dw0 and d2p0
\* as they were and does not call the inertial estimator; a cycle in which a
\* frame arrives sets d2p0 to its elements 0..2, w0 to its elements 3..5 and
\* dw0 to the result of exactly one estimator call on w0.
C20_BaseMotionFromInertial ==
    [][cycle' = cycle + 1 =>
         IF ft'["inertial"] = NULL
         THEN /\ w0' = w0 /\ dw0' = dw0 /\ d2p0' = d2p0
              /\ InertialEstCalls(calls') = <<>>
         ELSE /\ d2p0' = <<ft'["inertial"][1], ft'["inertial"][2], ft'["inertial"][3]>>
              /\ w0' = <<ft'["inertial"][4], ft'["inertial"][5], ft'["inertial"][6]>>
              /\ dw0' = Estimate("InertialEst", w0')
              /\ Len(InertialEstCalls(calls')) = 1
              /\ InertialEstCalls(calls')[1].x = w0']_vars

\* a cycle without an inertial frame that kept the base motion of the
\* calibration
C20_Witness ==
    /\ RanCycle
    /\ ft["inertial"] = NULL
    /\ w0 # Zeros(3)
    /\ dw0 = Estimate("InertialEst", w0)
    /\ InertialEstCalls(calls) = <<>>

\* threadRelease has run
Released == pc \in {"released", "deleted"}

\* C13, as stated: once threadRelease has run, every estimator and every
\* port the constructor allocated and opened has been released: the five
\* estimators, the four FT input ports, the inertial input port, the torque
\* ports and the three diagnostic ports.
C13_AllReleased ==
    Released => (est = {} /\ ports = {})

\* a step taken once the loop has been stopped is not a cycle of run
NoCycleOnceStopped ==
    pc \in {"stopping", "released", "deleted"} =>
        (cycle' = cycle /\ calls' = calls /\ thread_status' = thread_status)

\* C14: no estimator and no port of the thread is released while its loop
\* can still run; once stop() has ended the loop no cycle of run executes;
\* and close() closes no device driver before the thread has been stopped
\* and released.
C14_LoopExitsBeforeRelease ==
    /\ []((est # AllEst \/ ports # ThreadPorts) => Released)
    /\ [][NoCycleOnceStopped]_vars
    /\ [](dd # Groups => Released)

\* the module closed after the thread ran its cycles
C14_Witness ==
    /\ pc = "deleted"
    /\ cycle = MaxCycles
    /\ est = {}
    /\ dd = {}
    /\ mports = {}

\* ------------------------------------------------- properties of the filter
ValidIndex(j) == 0 <= j /\ j < MAX_JN

\* the memory with the history of every channel but j cleared
Isolated(mem, j) ==
    [xv |-> [r \in DOMAIN mem.xv |->
                [k \in DOMAIN mem.xv[r] |-> IF k = j THEN mem.xv[r][k] ELSE 0]],
     yv |-> [r \in DOMAIN mem.yv |->
                [k \in DOMAIN mem.yv[r] |-> IF k = j THEN mem.yv[r][k] ELSE 0]]]

\* the memory in the next state
FilterMemNext == [xv |-> xv', yv |-> yv']

\* the step is the arrival of an inbound message
MessageStep == nIn' = nIn + 1

\* the message published for an inbound message holds, in element k, what
\* the filter returns for element 3+k of the message on channel 3+k, and
\* carries the envelope of the inbound message
PublishesFiltered ==
    MessageStep =>
        /\ nOut' = nOut + 1
        /\ Len(out'.data) = GyroLen
        /\ \A k \in 0..(GyroLen - 1) :
              out'.data[k + 1]
                = lpf_ord1_3hz(FilterMem, inb'.b[FirstGyro + k + 1], FirstGyro + k).ret
        /\ out'.env = inb'.env

\* C15: every inbound raw inertial message makes the prefilter publish one
\* 6-element vector whose element k is the filtered value of channel 3+k of
\* the message, with the envelope (timestamp) of the inbound message.
C15_PublishesFilteredGyro ==
    [](nOut = nIn) /\ [][PublishesFiltered]_vars

\* a message has been published after the filter already had a history
C15_Witness ==
    /\ nOut = 1
    /\ out.env = inb.env
    /\ Len(inb.b) >= MAX_JN
    /\ Len(out.data) = GyroLen
    /\ lastCall.j = FirstGyro + 1
    /\ out.data[2] # out.data[1]

\* a call with an index outside 0..MAX_JN-1 returns 0 and leaves the memory
\* as it was; the elements of a message beyond the last channel leave no
\* trace in the memory
DropsInvalid ==
    /\ (~MessageStep /\ ~ValidIndex(lastCall'.j)) =>
          (xv' = xv /\ yv' = yv /\ lastCall'.ret = 0)
    /\ MessageStep =>
          FilterMemNext
            = FilterAll(FilterMem, SubSeq(inb'.b, 1, MAX_JN), 0, <<>>).mem

\* C16: a filter call with a channel index outside 0..11 drops the sample:
\* the history of every channel is left unchanged.
C16_InvalidIndexDropped ==
    [][DropsInvalid]_vars

\* a call with index MAX_JN made when a channel had a history
C16_Witness ==
    /\ lastCall.j = MAX_JN
    /\ lastCall.ret = 0
    /\ yv[1][FirstGyro + 1] > 0
    /\ nIn = 0

\* channel k after the step holds what one call on k with input x makes of
\* the history of k alone
OwnHistoryOnly(k, x) ==
    History(FilterMemNext, k) = History(FilterStep(Isolated(FilterMem, k), x, k).mem, k)

PerChannel ==
    /\ (~MessageStep /\ ValidIndex(lastCall'.j)) =>
          /\ \A k \in 0..(MAX_JN - 1) :
                k # lastCall'.j => History(FilterMemNext, k) = History(FilterMem, k)
          /\ OwnHistoryOnly(lastCall'.j, lastCall'.x)
          /\ lastCall'.ret = yv'[1][lastCall'.j]
    /\ MessageStep =>
          \A k \in Fed(inb'.b) : OwnHistoryOnly(k, inb'.b[k + 1])

\* C17: a call lpf_ord1_3hz(x, j) with a valid j changes the history of
\* channel j only, and the new history and the output of a channel depend
\* on that channel's own history and input only, whatever calls on other
\* channels come in between.
C17_ChannelsIndependent ==
    [][PerChannel]_vars

\* a message has arrived and a channel has been called directly: the
\* histories of two channels differ
C17_Witness ==
    /\ nIn = 1
    /\ lastCall.j = FirstGyro + 1
    /\ yv[1][FirstGyro] > 0
    /\ yv[1][FirstGyro + 1] # yv[1][FirstGyro]

\* y <= K for K = 2/(18.70043440*(1-0.8930506128)) = 1.00000000027...:
\* y is a whole number of units 2^-FracBits and K - 1 < 2^-31, so y <= K
\* exactly when y <= 1.0
AtMostK(y) == y <= Scale

Disjoint ==
    /\ MessageStep => threadVars' = threadVars
    /\ ~MessageStep => filterVars' = filterVars

\* C19: the cyclic thread and the prefilter's callback share no mutable
\* state: neither writes a variable of the other.
C19_NoSharedState ==
    [][Disjoint]_vars

\* both contexts have run
C19_Witness ==
    /\ nIn = 1
    /\ RanCycle
    /\ cycle = MaxCycles
    /\ yv[1][FirstGyro] > 0
    /\ \A l \in Limbs : Offset[l] # Zeros(WrenchLen)

\* --------------------------------------------- properties of the joint reads
\* a readAndUpdate has completed: after a cycle, or after a calibration trial
AfterTrial == pc = "calibrate" /\ trial > 0 /\ rd = 1

\* the groups of a concatenated vector, in the order they are placed
PlacedBefore(g) ==
    CASE g \in {"head", "torso"} -> <<>>
      [] g = "left_arm" -> <<"head">>
      [] g = "right_arm" -> <<"head", "left_arm">>
      [] g = "left_leg" -> <<"torso">>
      [] OTHER -> <<"torso", "left_leg">>

\* the offset of a group: the lengths of the groups placed before it
OffsetOf(g) == SumSeq([n \in 1..Len(PlacedBefore(g)) |-> Len(q[PlacedBefore(g)[n]])])

\* the three concatenated vectors a group belongs to
AllOf(g) == IF g \in UpSet THEN all_up ELSE all_low

Part(v, off, n) == [j \in 1..n |-> v[off + j]]

\* the positions of a group as its encoders gave them: the three torso
\* readings in reversed order
Readings(g) ==
    [j \in 1..Jnt(g) |->
        IF g = "torso" THEN encoders[g][Jnt(g) + 1 - j] ELSE encoders[g][j]]

EstimateCalls(e) == SelectSeq(calls, LAMBDA c : c.op = "estimate" /\ c.est = e)

JointEstimators ==
    [linEstUp |-> "upperTorso", quadEstUp |-> "upperTorso",
     linEstLow |-> "lowerTorso", quadEstLow |-> "lowerTorso"]

\* C21: in every readAndUpdate each of the four joint estimators is invoked
\* exactly once, on the concatenation head|left_arm|right_arm (upper) or
\* torso|left_leg|right_leg (lower, the torso readings reversed), and the
\* velocity and acceleration of each group are the slices of the results at
\* the offset at which the positions of the group were placed.
C21_EstimatorsOncePerGroupSlices ==
    (RanCycle \/ AfterTrial) =>
        /\ \A e \in DOMAIN JointEstimators :
              /\ Len(EstimateCalls(e)) = 1
              /\ EstimateCalls(e)[1].x
                   = (IF JointEstimators[e] = "upperTorso" THEN all_up.q ELSE all_low.q)
        /\ all_up.q = Readings("head") \o Readings("left_arm") \o Readings("right_arm")
        /\ all_low.q = Readings("torso") \o Readings("left_leg") \o Readings("right_leg")
        /\ \A g \in Groups :
              /\ q[g] = Part(AllOf(g).q, OffsetOf(g), Jnt(g))
              /\ AfterTrial =>
                    /\ dq[g] = Part(AllOf(g).dq, OffsetOf(g), Jnt(g))
                    /\ d2q[g] = Part(AllOf(g).d2q, OffsetOf(g), Jnt(g))

\* a calibration trial has read the joints: the torso readings are not
\* symmetric and the velocities of the two arms differ
C21_Witness ==
    /\ AfterTrial
    /\ encoders["torso"][1] # encoders["torso"][3]
    /\ q["torso"][1] = encoders["torso"][3]
    /\ dq["left_arm"] # dq["right_arm"]
    /\ dq["left_arm"][1] = <<"linEstUp", encoders["left_arm"][1]>>
    /\ d2q["right_leg"][LegJnt] = <<"quadEstLow", encoders["right_leg"][LegJnt]>>

\* ------------------------------------------------- properties of the modes
PerfMsgs == SelectSeq(calls, LAMBDA e : e.op = "write" /\ e.port \in PerfPorts)

\* the diagnostic model's last solution was made with the positions of the
\* cycle for the group
SensHasCycleJoints(g) ==
    icub_sens[ChainOf(g)].out.kin.ang[g] = Deg2Rad(q[g])

C23_ModesNeverEnabled ==
    /\ test = 0
    /\ comp = 0
    /\ PerfMsgs = <<>>

\* cycles have run and written torques, with nothing on a diagnostic port
C23_Witness ==
    /\ RanCycle
    /\ cycle = MaxCycles
    /\ Len(TorqueMsgs) = Len(TorqueWrites)
    /\ test # VOCAB_TEST
    /\ comp # VOCAB_COMP
    /\ PerfMsgs = <<>>

\* ---------------------------------------------- properties of the status
\* the last poll was made in the middle of the cycle that has just ended,
\* that cycle failed and the one before it had failed
PolledBetweenFailures ==
    /\ pc = "running"
    /\ polled.mid
    /\ polled.cyc = cycle - 1
    /\ polled.before = STATUS_DISCONNECTED
    /\ EncoderReadFailed

\* C24, as stated: while the encoder read fails in every cycle, a status
\* poll made at any instant, the middle of a cycle included, returns
\* DISCONNECTED.
C24_PollSeesDisconnected ==
    PolledBetweenFailures => polled.val = STATUS_DISCONNECTED

\* C25, as stated: for an inbound message of any size the callback reads
\* only indices that exist in the filtered vector it built from the message.
C25_ReadsWithinMessage ==
    overrun = {}

\* C27, as stated: the prefilter never writes to the filtered-inertial port
\* after close() has closed it: the callback is unsubscribed before the
\* output port is closed.
C27_NoWriteAfterOutputClosed ==
    /\ lateWrites = 0
    /\ "filtered/inertial:o" \notin mports => "unfiltered/inertial:i" \notin mports

\* C28, as stated: if threadRelease is invoked more than once, every
\* estimator and every port is released at most once.
C28_ReleasedAtMostOnce ==
    \A r \in DOMAIN relCount : relCount[r] <= 1

\* --------------------------------------------- properties of re-invocation
\* C29: the offsets calibrateOffset(N) produces depend only on the samples
\* read during that invocation, not on the offsets held before the call:
\* two invocations with the same N that see the same samples produce the
\* same offsets.
C29_CalibrationWithoutMemory ==
    \A i, j \in 1..Len(results) :
        (results[i].n = results[j].n /\ results[i].trace = results[j].trace)
            => results[i].off = results[j].off

\* two invocations have seen the same samples, and the offsets held when
\* the second began were not zero
C29_Witness ==
    /\ Len(results) = 2
    /\ results[1].n > 0
    /\ results[1].n = results[2].n
    /\ results[1].trace = results[2].trace
    /\ results[1].off["left_arm"] # Zeros(WrenchLen)
    /\ Offset = results[1].off

\* C26, as stated: for any axis counts reported at initialization, every
\* index used on the encoder buffers and on the concatenated vectors during
\* a read is within the size the buffer was given.
C26_IndicesWithinBuffers ==
    badIndex = {}

====
